---- MODULE Spec2Model ----
(***************************************************************************)
(* Model of mm-func-mood-ingest: the POST /mood handler (function_app.py), *)
(* its nested _coerce_analysis, and MoodDatabase (cosmosdb_client.py).     *)
(*                                                                         *)
(* Python strings are sequences of symbols.  The symbols are single        *)
(* characters, except that a run of three backticks (FENCE), a bare word   *)
(* and one JSON member are each one symbol; this restricts the inputs      *)
(* (backticks come in threes), not what the string operations do to them.  *)
(*                                                                         *)
(* Python values are records [type, str, num, items]; the items of a dict  *)
(* are pairs <<key, scalar>> with scalar a record [type, str, num].        *)
(* The outcome of a call is [exc, value]: exc is "none" when the call      *)
(* returned value, and the class of the exception otherwise.               *)
(***************************************************************************)
EXTENDS Integers, Sequences, FiniteSets, TLC

VARIABLES
    env,          \* os.environ: which of COSMOS_ENDPOINT / COSMOS_KEY are set
    store,        \* documents of container "moods"
    nextId,       \* number of uuid4() values drawn so far
    clock,        \* datetime.utcnow()
    pc,           \* position of the running mood_post call
    req,          \* the HttpRequest of the running call
    text,         \* mood_post local: text
    user_id,      \* mood_post local: user_id
    raw_analysis, \* mood_post local: raw_analysis
    analysis,     \* mood_post local: analysis
    response,     \* the HttpResponse returned by mood_post
    calls,        \* collaborators invoked by the running call, in order
    written,      \* id of the document the running call wrote, <<>> if none
    created,      \* log of successful create_mood_entry calls (arguments, id)
    last          \* the latest direct MoodDatabase call and its outcome

vars == <<env, store, nextId, clock, pc, req, text, user_id, raw_analysis,
          analysis, response, calls, written, created, last>>

----------------------------------------------------------------------------
(* Bounds *)

MaxLen == 5        \* longest generator output enumerated, in symbols
MaxEntries == 2    \* documents written before the model stops creating
MaxPage == 2       \* largest limit / offset passed to get_user_history
MaxDays == 1       \* largest days passed to get_mood_stats

----------------------------------------------------------------------------
(* Symbols of strings *)

FENCE == "<fence>"
WORD == "json"
NL == "\n"
LBRACE == "{"
RBRACE == "}"
MEMBER == "\"mood\":\"calm\""
NULL == "null"

Alphabet == {FENCE, WORD, NL, LBRACE, RBRACE, MEMBER, NULL}

\* str.isspace on one symbol
IsSpace(c) == c = NL

\* the class [a-zA-Z0-9_-] of the opening-fence pattern
IsTagChar(c) == c \in {WORD, NULL}

----------------------------------------------------------------------------
(* Python values *)

ScNone == [type |-> "NoneType", str |-> <<>>, num |-> 0]
ScStr(s) == [type |-> "str", str |-> s, num |-> 0]
ScInt(n) == [type |-> "int", str |-> <<>>, num |-> n]

PyNone == [type |-> "NoneType", str |-> <<>>, num |-> 0, items |-> {}]
PyStr(s) == [type |-> "str", str |-> s, num |-> 0, items |-> {}]
PyInt(n) == [type |-> "int", str |-> <<>>, num |-> n, items |-> {}]
PyDict(kv) == [type |-> "dict", str |-> <<>>, num |-> 0, items |-> kv]

\* bool(value)
Truthy(v) ==
    CASE v.type = "NoneType" -> FALSE
      [] v.type = "str" -> v.str # <<>>
      [] v.type = "int" -> v.num # 0
      [] OTHER -> v.items # {}

\* str(value) for a value that is neither str nor dict
Digits == <<"0", "1", "2", "3", "4", "5", "6", "7", "8", "9">>

PyStrOf(v) ==
    CASE v.type = "NoneType" -> <<"None">>
      [] v.type = "int" -> <<Digits[v.num + 1]>>
      [] OTHER -> v.str

Returned(v) == [exc |-> "none", value |-> v]
Raised(e) == [exc |-> e, value |-> PyNone]

\* isinstance(e, ValueError)
IsValueError(e) == e \in {"ValueError", "JSONDecodeError", "UnicodeDecodeError"}

----------------------------------------------------------------------------
(* String operations used by _coerce_analysis *)

\* number of leading whitespace symbols of s
RECURSIVE LeadingSpace(_)
LeadingSpace(s) ==
    IF s = <<>> \/ ~IsSpace(Head(s)) THEN 0 ELSE 1 + LeadingSpace(Tail(s))

\* number of trailing whitespace symbols of s
RECURSIVE TrailingSpace(_)
TrailingSpace(s) ==
    IF s = <<>> \/ ~IsSpace(s[Len(s)]) THEN 0
    ELSE 1 + TrailingSpace(SubSeq(s, 1, Len(s) - 1))

\* s.strip()
Strip(s) ==
    LET a == LeadingSpace(s)
    IN  IF a = Len(s) THEN <<>> ELSE SubSeq(s, a + 1, Len(s) - TrailingSpace(s))

\* s.startswith(FENCE)
StartsWithFence(s) == s # <<>> /\ Head(s) = FENCE

\* length of the longest prefix of s made of tag characters
RECURSIVE TagRun(_)
TagRun(s) ==
    IF s = <<>> \/ ~IsTagChar(Head(s)) THEN 0 ELSE 1 + TagRun(Tail(s))

\* re.sub(r'^```[a-zA-Z0-9_-]*\n', '', s): the fence, the longest run of tag
\* characters and the newline that must follow it are removed together
SubOpeningFence(s) ==
    IF ~StartsWithFence(s) THEN s
    ELSE LET k == TagRun(Tail(s))
         IN  IF Len(s) >= k + 2 /\ s[k + 2] = NL
             THEN SubSeq(s, k + 3, Len(s))
             ELSE s

\* re.sub(r'```\s*$', '', s): a fence followed only by whitespace up to the
\* end of the string is removed with that whitespace
SubClosingFence(s) ==
    LET t == TrailingSpace(s)
    IN  IF Len(s) > t /\ s[Len(s) - t] = FENCE
        THEN SubSeq(s, 1, Len(s) - t - 1)
        ELSE s

\* s.find(c): 0-based index of the first c, -1 when there is none
Find(s, c) ==
    IF \E i \in 1..Len(s) : s[i] = c
    THEN (CHOOSE i \in 1..Len(s) :
              s[i] = c /\ \A j \in 1..(i - 1) : s[j] # c) - 1
    ELSE -1

\* s.rfind(c): 0-based index of the last c, -1 when there is none
RFind(s, c) ==
    IF \E i \in 1..Len(s) : s[i] = c
    THEN (CHOOSE i \in 1..Len(s) :
              s[i] = c /\ \A j \in (i + 1)..Len(s) : s[j] # c) - 1
    ELSE -1

\* s[a:b] for 0 <= a <= b <= len(s)
Slice(s, a, b) == SubSeq(s, a + 1, b)

\* json.loads(s): leading and trailing whitespace is skipped, and exactly one
\* JSON value must remain.  Over the alphabet the values are null, the empty
\* object and the object with the one member, with whitespace allowed inside
\* the braces.  Anything else raises JSONDecodeError.
JsonLoads(s) ==
    LET t == Strip(s)
        inner == Strip(SubSeq(t, 2, Len(t) - 1))
    IN  CASE t = <<NULL>> -> Returned(PyNone)
          [] Len(t) >= 2 /\ Head(t) = LBRACE /\ t[Len(t)] = RBRACE
               /\ inner = <<>> -> Returned(PyDict({}))
          [] Len(t) >= 2 /\ Head(t) = LBRACE /\ t[Len(t)] = RBRACE
               /\ inner = <<MEMBER>> ->
                 Returned(PyDict({<<"mood", ScStr(<<"calm">>)>>}))
          [] OTHER -> Raised("JSONDecodeError")

\* the text after strip() and the two fence substitutions, function_app.py
\* lines 81-86
Unfenced(s) ==
    LET txt == Strip(s)
    IN  IF StartsWithFence(txt)
        THEN Strip(SubClosingFence(SubOpeningFence(txt)))
        ELSE txt

\* _coerce_analysis with the fallback wrapping the stripped text instead of
\* the original value
_coerce_analysis_raw_stripped(value) ==
    IF value.type = "dict" THEN Returned(value)
    ELSE IF value.type # "str"
    THEN Returned(PyDict({<<"raw", ScStr(PyStrOf(value))>>}))
    ELSE
    LET txt == Unfenced(value.str)
        whole == JsonLoads(txt)
        first_brace == Find(txt, LBRACE)
        last_brace == RFind(txt, RBRACE)
        candidate == Slice(txt, first_brace, last_brace + 1)
    IN  IF whole.exc = "none" THEN whole
        ELSE IF first_brace # -1 /\ last_brace # -1 /\ last_brace > first_brace
                /\ JsonLoads(candidate).exc = "none"
        THEN JsonLoads(candidate)
        ELSE Returned(PyDict({<<"raw", ScStr(txt)>>}))

\* _coerce_analysis(value)
_coerce_analysis(value) ==
    IF value.type = "dict" THEN Returned(value)
    ELSE IF value.type # "str"
    THEN Returned(PyDict({<<"raw", ScStr(PyStrOf(value))>>}))
    ELSE
    LET txt == Unfenced(value.str)
        whole == JsonLoads(txt)
        first_brace == Find(txt, LBRACE)
        last_brace == RFind(txt, RBRACE)
        candidate == Slice(txt, first_brace, last_brace + 1)
    IN  IF whole.exc = "none" THEN whole
        ELSE IF first_brace # -1 /\ last_brace # -1 /\ last_brace > first_brace
                /\ JsonLoads(candidate).exc = "none"
        THEN JsonLoads(candidate)
        ELSE Returned(PyDict({<<"raw", ScStr(value.str)>>}))

----------------------------------------------------------------------------
(* Requests, responses and collaborator outcomes *)

Users == {<<"u1">>, <<"u2">>}
Texts == {<<"I feel great">>}

PyList == [type |-> "list", str |-> <<>>, num |-> 0, items |-> {}]

\* values a JSON body can give the fields 'text' and 'userid'
TextFields == {ScStr(<<>>), ScInt(5)} \cup {ScStr(t) : t \in Texts}
UserFields == {ScStr(<<>>), ScInt(5)} \cup {ScStr(u) : u \in Users}

\* JSON objects: each field absent or present
ObjectBodies ==
    {PyDict(t \cup u) :
        t \in {{}} \cup {{<<"text", f>>} : f \in TextFields},
        u \in {{}} \cup {{<<"userid", f>>} : f \in UserFields}}

\* what req.get_json() can return: null, a list, a number, a string, an object
JsonBodies == {PyNone, PyList, PyInt(5), PyStr(<<"hi">>)} \cup ObjectBodies

\* a request is its raw body (empty or not) and the outcome of get_json()
Requests ==
    {[body |-> "empty", json |-> Raised("ValueError")],
     [body |-> "bytes", json |-> Raised("ValueError")]}
    \cup {[body |-> "bytes", json |-> Returned(v)] : v \in JsonBodies}

NoRequest == [body |-> "none", json |-> Raised("none")]

\* texts the generator returns in the request pipeline
Samples ==
    {<<>>,
     <<WORD, WORD>>,
     <<NULL>>,
     <<LBRACE, MEMBER, RBRACE>>,
     <<FENCE, WORD, NL, LBRACE, MEMBER, RBRACE, NL, FENCE>>,
     <<WORD, LBRACE, MEMBER, RBRACE, WORD>>}

\* genai.analyze_mood returns resp.text, or raises: resp.text raises
\* ValueError, generate_content raises an API error
GenOutcomes ==
    {Returned(PyStr(s)) : s \in Samples}
    \cup {Raised("ValueError"), Raised("GoogleAPIError")}

\* every string of at most MaxLen symbols, a mapping, and two other values
Strings == UNION {[1..n -> Alphabet] : n \in 0..MaxLen}
CoerceInputs ==
    {PyStr(s) : s \in Strings}
    \cup {PyDict({<<"mood", ScStr(<<"calm">>)>>}), PyNone, PyInt(5)}

\* dict.get(key)
Get(d, k) ==
    IF \E p \in d.items : p[1] = k
    THEN (CHOOSE p \in d.items : p[1] = k)[2]
    ELSE ScNone

\* value[key]: a dict is looked up, a str indexed by a str raises TypeError
Subscript(v, k) ==
    CASE v.type = "dict" ->
             IF \E p \in v.items : p[1] = k
             THEN Returned(PyStr(Get(v, k).str))
             ELSE Raised("KeyError")
      [] OTHER -> Raised("TypeError")

HttpResponse(status, err, id, an) ==
    [status_code |-> status, error |-> err, mood_id |-> id, analysis |-> an]

NoResponse == HttpResponse(0, "", <<>>, PyNone)

ErrorResponse(status, err) == HttpResponse(status, err, <<>>, PyNone)

\* the two except clauses of mood_post
Handle(exc) ==
    IF IsValueError(exc)
    THEN ErrorResponse(400, "Invalid JSON in request body")
    ELSE ErrorResponse(500, "Internal server error")

\* the response of the validation prefix of mood_post, NoResponse when the
\* request passes it
Validate(r) ==
    IF r.body = "empty"
    THEN ErrorResponse(400, "Request body is empty")
    ELSE IF r.json.exc # "none" THEN Handle(r.json.exc)
    ELSE IF r.json.value.type = "NoneType"
    THEN ErrorResponse(400, "Request body is not valid JSON")
    ELSE IF r.json.value.type # "dict" THEN Handle("AttributeError")
    ELSE IF ~Truthy(Get(r.json.value, "text"))
            \/ Get(r.json.value, "text").type # "str"
    THEN ErrorResponse(400, "Missing or invalid 'text' field")
    ELSE IF ~Truthy(Get(r.json.value, "userid"))
            \/ Get(r.json.value, "userid").type # "str"
    THEN ErrorResponse(400, "Missing or invalid 'userid' field")
    ELSE NoResponse

----------------------------------------------------------------------------
(* MoodDatabase *)

\* str(uuid.uuid4()): the n-th identifier drawn, a non-empty string
Uuid(n) == [i \in 1..n |-> "x"]

\* MoodDatabase.__init__
MoodDatabaseInit(e, reachable) ==
    IF ~e.COSMOS_ENDPOINT \/ ~e.COSMOS_KEY THEN Raised("ValueError")
    ELSE IF ~reachable THEN Raised("CosmosHttpResponseError")
    ELSE Returned(PyNone)

\* mood_doc of create_mood_entry
mood_doc(uid, txt, an) ==
    [id |-> Uuid(nextId + 1), user_id |-> uid, text |-> txt,
     timestamp |-> clock, analysis |-> PyNone]

\* what create_mood_entry returns or raises, given whether create_item works
create_mood_entry(uid, txt, an, ok) ==
    IF ok THEN Returned(PyStr(mood_doc(uid, txt, an).id))
    ELSE Raised("CosmosHttpResponseError")

\* the effect of create_mood_entry on the container
CreateItem(uid, txt, an, ok) ==
    IF ok
    THEN /\ store' = store \cup {mood_doc(uid, txt, an)}
         /\ nextId' = nextId + 1
         /\ clock' = clock + 1
         /\ created' = created \cup
                {[id |-> mood_doc(uid, txt, an).id, user_id |-> uid,
                  text |-> txt, analysis |-> an]}
    ELSE UNCHANGED <<store, nextId, clock, created>>

\* read_item looking the id up in every partition
read_item_any_partition(mood_id, uid) ==
    {d \in store : d.id = mood_id}

\* container.read_item(item, partition_key): the document with that id in
\* the logical partition user_id
read_item(mood_id, uid) ==
    {d \in store : d.id = mood_id /\ d.user_id = uid}

\* get_mood_by_id: the documents returned (none stands for None)
get_mood_by_id(mood_id, uid, ok) ==
    IF ~ok THEN {} ELSE read_item(mood_id, uid)

\* the documents of S as a list, by timestamp, latest first
RECURSIVE ByTimestampDesc(_)
ByTimestampDesc(S) ==
    IF S = {} THEN <<>>
    ELSE LET d == CHOOSE x \in S : \A y \in S : y.timestamp <= x.timestamp
         IN  <<d>> \o ByTimestampDesc(S \ {d})

Min(a, b) == IF a <= b THEN a ELSE b

\* get_user_history
get_user_history(uid, limit, offset, ok) ==
    IF ~ok THEN <<>>
    ELSE LET all == ByTimestampDesc({d \in store : d.user_id = uid})
         IN  SubSeq(all, offset + 1, Min(Len(all), offset + limit))

\* SELECT c.analysis.label as label, c.analysis.confidence as confidence:
\* a property that is undefined in the document is left out of the item
Project(d) ==
    IF d.analysis.type = "dict"
    THEN {p \in d.analysis.items : p[1] \in {"label", "confidence"}}
    ELSE {}

\* the items of the statistics query, in the order they were inserted
query_stats(uid, cutoff) ==
    LET docs == ByTimestampDesc({d \in store :
                    d.user_id = uid /\ d.timestamp >= cutoff})
    IN  [i \in 1..Len(docs) |-> Project(docs[Len(docs) - i + 1])]

HasKey(item, k) == \E p \in item : p[1] = k
Lookup(item, k) == (CHOOSE p \in item : p[1] = k)[2]

\* the distinct elements of a list, in first-encountered order
RECURSIVE Distinct(_)
Distinct(l) ==
    IF l = <<>> THEN <<>>
    ELSE LET rest == Distinct(SubSeq(l, 1, Len(l) - 1))
             x == l[Len(l)]
         IN  IF \E i \in 1..Len(rest) : rest[i] = x THEN rest
             ELSE Append(rest, x)

Count(l, x) == Cardinality({i \in 1..Len(l) : l[i] = x})

\* Counter(l).most_common(n): by count, ties in first-encountered order
RECURSIVE MostCommon(_, _, _)
MostCommon(l, cands, n) ==
    IF n = 0 \/ cands = <<>> THEN <<>>
    ELSE LET i == CHOOSE i \in 1..Len(cands) :
                      /\ \A j \in 1..Len(cands) :
                            Count(l, cands[j]) <= Count(l, cands[i])
                      /\ \A j \in 1..(i - 1) :
                            Count(l, cands[j]) < Count(l, cands[i])
             rest == [j \in 1..(Len(cands) - 1) |->
                         IF j < i THEN cands[j] ELSE cands[j + 1]]
         IN  <<[mood |-> cands[i], count |-> Count(l, cands[i])]>>
             \o MostCommon(l, rest, n - 1)

\* a number in hundredths: an int counts units, a float hundredths
Hundredths(v) == IF v.type = "int" THEN 100 * v.num ELSE v.num

RECURSIVE Sum(_)
Sum(l) == IF l = <<>> THEN 0 ELSE Head(l) + Sum(Tail(l))

\* round(total / n, 1) in tenths, total in hundredths, halves to even
Round1(total, n) ==
    LET q == total \div (10 * n)
        r == total % (10 * n)
    IN  IF 2 * r > 10 * n \/ (2 * r = 10 * n /\ q % 2 = 1) THEN q + 1 ELSE q

Stats(keys, total, common, avg, days, err) ==
    [keys |-> keys, total_entries |-> total, most_common_moods |-> common,
     avg_confidence |-> avg, period_days |-> days, error |-> err]

NoStats == Stats({}, 0, <<>>, 0, 0, "")

StatsKeys == {"total_entries", "most_common_moods", "avg_confidence",
              "period_days"}

\* get_mood_stats: the dict returned, or the exception that escapes
get_mood_stats(uid, days, ok) ==
    LET items == query_stats(uid, clock - days)
        labels == [i \in 1..Len(items) |-> Lookup(items[i], "label")]
        confidences == [i \in 1..Len(items) |->
                           IF HasKey(items[i], "confidence")
                           THEN Lookup(items[i], "confidence")
                           ELSE ScInt(5)]
    IN  IF ~ok
        THEN [exc |-> "none",
              value |-> Stats({"error", "period_days"}, 0, <<>>, 0, days,
                              "CosmosHttpResponseError")]
        ELSE IF items = <<>>
        THEN [exc |-> "none", value |-> Stats(StatsKeys, 0, <<>>, 0, days, "")]
        ELSE IF \E i \in 1..Len(items) : ~HasKey(items[i], "label")
        THEN [exc |-> "KeyError", value |-> NoStats]
        ELSE IF \E i \in 1..Len(items) :
                    confidences[i].type \notin {"int", "float"}
        THEN [exc |-> "TypeError", value |-> NoStats]
        ELSE [exc |-> "none",
              value |-> Stats(StatsKeys, Len(items),
                              MostCommon(labels, Distinct(labels), 3),
                              Round1(Sum([i \in 1..Len(items) |->
                                             Hundredths(confidences[i])]),
                                     Len(items)),
                              days, "")]

\* the latest direct call on a MoodDatabase: arguments, whether the storage
\* call worked, and what came back
Call(op, mid, uid, txt, ok, exc, docs, stats) ==
    [op |-> op, mood_id |-> mid, user_id |-> uid, text |-> txt, ok |-> ok,
     exc |-> exc, docs |-> docs, stats |-> stats]

NoCall == Call("none", <<>>, <<>>, <<>>, TRUE, "none", <<>>, NoStats)

\* a set of at most one document as a list
AsList(S) == IF S = {} THEN <<>> ELSE <<CHOOSE d \in S : TRUE>>

----------------------------------------------------------------------------
(* State machine *)

Init ==
    /\ env \in [{"COSMOS_ENDPOINT", "COSMOS_KEY"} -> BOOLEAN]
    /\ store = {}
    /\ nextId = 0
    /\ clock = 0
    /\ pc = "idle"
    /\ req = NoRequest
    /\ text = <<>>
    /\ user_id = <<>>
    /\ raw_analysis = PyNone
    /\ analysis = PyNone
    /\ response = NoResponse
    /\ calls = <<>>
    /\ written = <<>>
    /\ created = {}
    /\ last = NoCall

\* mood_post, lines 21-61: the request arrives and is validated
MoodPost ==
    /\ pc = "idle"
    /\ \E r \in Requests :
         /\ req' = r
         /\ IF Validate(r) = NoResponse
            THEN /\ pc' = "analyze"
                 /\ text' = Get(r.json.value, "text").str
                 /\ user_id' = Get(r.json.value, "userid").str
                 /\ response' = NoResponse
            ELSE /\ pc' = "done"
                 /\ response' = Validate(r)
                 /\ UNCHANGED <<text, user_id>>
    /\ calls' = <<>>
    /\ written' = <<>>
    /\ last' = NoCall
    /\ UNCHANGED <<env, store, nextId, clock, raw_analysis, analysis, created>>

\* mood_post, line 65: genai.analyze_mood(text)
AnalyzeMood ==
    /\ pc = "analyze"
    /\ calls' = Append(calls, "analyze_mood")
    /\ \E o \in GenOutcomes :
         IF o.exc = "none"
         THEN /\ raw_analysis' = o.value
              /\ pc' = "coerce"
              /\ UNCHANGED response
         ELSE /\ response' = Handle(o.exc)
              /\ pc' = "done"
              /\ UNCHANGED raw_analysis
    /\ UNCHANGED <<env, store, nextId, clock, req, text, user_id, analysis,
                   written, created, last>>

\* mood_post, line 107: analysis = _coerce_analysis(raw_analysis)
Coerce ==
    /\ pc = "coerce"
    /\ calls' = Append(calls, "_coerce_analysis")
    /\ LET r == _coerce_analysis(raw_analysis)
       IN  IF r.exc = "none"
           THEN /\ analysis' = r.value
                /\ pc' = "connect"
                /\ UNCHANGED response
           ELSE /\ response' = Handle(r.exc)
                /\ pc' = "done"
                /\ UNCHANGED analysis
    /\ UNCHANGED <<env, store, nextId, clock, req, text, user_id,
                   raw_analysis, written, created, last>>

\* mood_post, line 110: mood_db = cosmosdb_client.MoodDatabase()
Connect ==
    /\ pc = "connect"
    /\ calls' = Append(calls, "MoodDatabase")
    /\ \E reachable \in BOOLEAN :
         LET r == MoodDatabaseInit(env, reachable)
         IN  IF r.exc = "none"
             THEN pc' = "create" /\ UNCHANGED response
             ELSE pc' = "done" /\ response' = Handle(r.exc)
    /\ UNCHANGED <<env, store, nextId, clock, req, text, user_id,
                   raw_analysis, analysis, written, created, last>>

\* mood_post, lines 111-121: the entry is created and the response built
CreateAndRespond ==
    /\ pc = "create"
    /\ calls' = Append(calls, "create_mood_entry")
    /\ \E ok \in {b \in BOOLEAN : b => nextId < MaxEntries} :
         LET mood_entry == create_mood_entry(user_id, text, analysis, ok)
             mood_id == Subscript(mood_entry.value, "id")
         IN  /\ CreateItem(user_id, text, analysis, ok)
             /\ written' = IF ok THEN mood_doc(user_id, text, analysis).id
                           ELSE <<>>
             /\ response' =
                   IF mood_entry.exc # "none" THEN Handle(mood_entry.exc)
                   ELSE IF mood_id.exc # "none" THEN Handle(mood_id.exc)
                   ELSE HttpResponse(200, "", mood_id.value.str, analysis)
    /\ pc' = "done"
    /\ UNCHANGED <<env, req, text, user_id, raw_analysis, analysis, last>>

\* the response has been sent; the next request may arrive
Finish ==
    /\ pc = "done"
    /\ pc' = "idle"
    /\ req' = NoRequest
    /\ text' = <<>>
    /\ user_id' = <<>>
    /\ raw_analysis' = PyNone
    /\ analysis' = PyNone
    /\ response' = NoResponse
    /\ calls' = <<>>
    /\ written' = <<>>
    /\ UNCHANGED <<env, store, nextId, clock, created, last>>

\* a MoodDatabase can be constructed
Connected == env["COSMOS_ENDPOINT"] /\ env["COSMOS_KEY"]

\* a direct call of create_mood_entry
DbCreate ==
    /\ pc = "idle" /\ Connected
    /\ \E uid \in Users \cup {<<>>}, txt \in Texts \cup {<<>>},
          ok \in {b \in BOOLEAN : b => nextId < MaxEntries} :
         LET r == create_mood_entry(uid, txt, PyNone, ok)
         IN  /\ CreateItem(uid, txt, PyNone, ok)
             /\ last' = Call("create_mood_entry", r.value.str, uid, txt, ok,
                             r.exc, <<>>, NoStats)
    /\ UNCHANGED <<env, pc, req, text, user_id, raw_analysis, analysis,
                   response, calls, written>>

\* a direct call of get_mood_by_id
DbGetById ==
    /\ pc = "idle" /\ Connected
    /\ \E n \in 1..(MaxEntries + 1), uid \in Users, ok \in BOOLEAN :
         last' = Call("get_mood_by_id", Uuid(n), uid, <<>>, ok, "none",
                      AsList(get_mood_by_id(Uuid(n), uid, ok)), NoStats)
    /\ UNCHANGED <<env, store, nextId, clock, pc, req, text, user_id,
                   raw_analysis, analysis, response, calls, written, created>>

\* a direct call of get_user_history
DbHistory ==
    /\ pc = "idle" /\ Connected
    /\ \E uid \in Users, limit \in 0..MaxPage, offset \in 0..MaxPage,
          ok \in BOOLEAN :
         last' = Call("get_user_history", <<>>, uid, <<>>, ok, "none",
                      get_user_history(uid, limit, offset, ok), NoStats)
    /\ UNCHANGED <<env, store, nextId, clock, pc, req, text, user_id,
                   raw_analysis, analysis, response, calls, written, created>>

\* a direct call of get_mood_stats
DbStats ==
    /\ pc = "idle" /\ Connected
    /\ \E uid \in Users, days \in 0..MaxDays, ok \in BOOLEAN :
         LET r == get_mood_stats(uid, days, ok)
         IN  last' = Call("get_mood_stats", <<>>, uid, <<>>, ok, r.exc, <<>>,
                          r.value)
    /\ UNCHANGED <<env, store, nextId, clock, pc, req, text, user_id,
                   raw_analysis, analysis, response, calls, written, created>>

Next ==
    \/ MoodPost
    \/ AnalyzeMood
    \/ Coerce
    \/ Connect
    \/ CreateAndRespond
    \/ Finish
    \/ DbCreate
    \/ DbGetById
    \/ DbHistory
    \/ DbStats

Spec == Init /\ [][Next]_vars

\* _coerce_analysis alone: the generator has returned any value at all
InitCoerce ==
    /\ env = [k \in {"COSMOS_ENDPOINT", "COSMOS_KEY"} |-> TRUE]
    /\ store = {}
    /\ nextId = 0
    /\ clock = 0
    /\ pc = "coerce"
    /\ req = [body |-> "bytes",
              json |-> Returned(PyDict({<<"text", ScStr(<<"I feel great">>)>>,
                                        <<"userid", ScStr(<<"u1">>)>>}))]
    /\ text = <<"I feel great">>
    /\ user_id = <<"u1">>
    /\ raw_analysis \in CoerceInputs
    /\ analysis = PyNone
    /\ response = NoResponse
    /\ calls = <<"analyze_mood">>
    /\ written = <<>>
    /\ created = {}
    /\ last = NoCall

NextCoerce == Coerce

SpecCoerce == InitCoerce /\ [][NextCoerce]_vars

----------------------------------------------------------------------------
(* Claims *)

\* the request of the running call fails validation: the body is empty, is
\* not JSON, is not an object, or lacks a non-empty string text or userid
InvalidRequest(r) ==
    \/ r.body = "empty"
    \/ r.json.exc # "none"
    \/ r.json.value.type # "dict"
    \/ \A t \in Texts : <<"text", ScStr(t)>> \notin r.json.value.items
    \/ \A u \in Users : <<"userid", ScStr(u)>> \notin r.json.value.items

\* C1: a valid POST /mood whose generator call and store write both succeed
\* is answered 200 with the id of the entry just written and the coerced
\* analysis.
C1_SuccessIs200 ==
    (pc = "done" /\ written # <<>>) =>
        /\ response.status_code = 200
        /\ response.mood_id = written
        /\ response.analysis = analysis

\* C2: every successful create_mood_entry(user_id, text, analysis) leaves in
\* the store a record with that id whose user_id, text and analysis equal
\* the arguments.
C2_StoredAsGiven ==
    \A c \in created :
        \E d \in store :
            /\ d.id = c.id
            /\ d.user_id = c.user_id
            /\ d.text = c.text
            /\ d.analysis = c.analysis

\* C3: a POST /mood answered 400 or 500 has written no entry, and the store
\* write comes only after the generator call and the coercion.
C3_NoPartialState ==
    /\ (pc = "done" /\ response.status_code \in {400, 500}) => written = <<>>
    /\ \A i \in 1..Len(calls) :
          calls[i] = "create_mood_entry" =>
              /\ \E j \in 1..(i - 1) : calls[j] = "analyze_mood"
              /\ \E j \in 1..(i - 1) : calls[j] = "_coerce_analysis"

\* C4: once validation has passed, a failing collaborator (generator,
\* MoodDatabase construction, store write) is answered 500 with an error
\* message, never 400.
C4_CollaboratorFailureIs500 ==
    (pc = "done" /\ calls # <<>> /\ written = <<>>) =>
        /\ response.status_code = 500
        /\ response.error # ""

\* C5: a request that fails validation is answered 400 with an error
\* message, and no collaborator is invoked for it.
C5_ValidationShortCircuits ==
    (pc = "done" /\ InvalidRequest(req)) =>
        /\ response.status_code = 400
        /\ response.error # ""
        /\ calls = <<>>
        /\ written = <<>>

\* C6: create_mood_entry with an empty user_id or text fails with an
\* invalid-argument error and writes nothing, so every stored entry has a
\* non-empty id, user_id and text.
C6_RejectsEmptyArguments ==
    /\ \A d \in store : d.id # <<>> /\ d.user_id # <<>> /\ d.text # <<>>
    /\ (last.op = "create_mood_entry"
            /\ (last.user_id = <<>> \/ last.text = <<>>)) =>
           last.exc = "InvalidArgument"

\* C7: with no storage failure, get_mood_by_id(mood_id, user_id) returns an
\* entry exactly when an entry with that id was created under that user_id;
\* the entry carries the user_id and text given at creation, and the id of
\* another user's entry yields None.
C7_PointLookup ==
    (last.op = "get_mood_by_id" /\ last.ok) =>
        /\ last.docs # <<>> <=>
               \E c \in created :
                   c.id = last.mood_id /\ c.user_id = last.user_id
        /\ last.docs # <<>> =>
               \A c \in created :
                   c.id = last.mood_id =>
                       /\ last.docs[1].id = c.id
                       /\ last.docs[1].user_id = c.user_id
                       /\ last.docs[1].text = c.text
        /\ \A c \in created :
               (c.id = last.mood_id /\ c.user_id # last.user_id) =>
                   last.docs = <<>>

\* a lookup of an existing id under another user's partition came back empty
C7_Witness ==
    /\ last.op = "get_mood_by_id" /\ last.ok
    /\ last.docs = <<>>
    /\ \E c \in created : c.id = last.mood_id /\ c.user_id # last.user_id

\* the substrings of t that run from the first '{' to the last '}'
BraceSpans(t) ==
    {SubSeq(t, p[1], p[2]) :
        p \in {q \in (1..Len(t)) \X (1..Len(t)) :
                  /\ q[1] < q[2]
                  /\ t[q[1]] = LBRACE
                  /\ t[q[2]] = RBRACE
                  /\ \A m \in 1..(q[1] - 1) : t[m] # LBRACE
                  /\ \A m \in (q[2] + 1)..Len(t) : t[m] # RBRACE}}

C9_ResultIsMapping ==
    pc # "coerce" => (pc = "connect" /\ analysis.type = "dict")

\* C10: get_user_history and get_mood_stats never raise: history is a list,
\* statistics a dict, carrying 'error' when the query failed.
C10_ReadPathNeverRaises ==
    /\ last.op = "get_user_history" => last.exc = "none"
    /\ last.op = "get_mood_stats" =>
          /\ last.exc = "none"
          /\ ~last.ok => "error" \in last.stats.keys
          /\ last.ok => last.stats.keys = StatsKeys

====
